---- MODULE Spec2Model ----
(***************************************************************************)
(* Model of the portfolio accounting of src/src/bushra_p2.py:              *)
(* CryptoPortfolio.buy / CryptoPortfolio.sell over the holdings dict and   *)
(* the transaction list, with the price obtained from                      *)
(* PullData.get_current_price at call time.                                *)
(*                                                                         *)
(* Numbers: amounts and prices are drawn from small integer ranges; the    *)
(* average buy price and the profit are exact rationals <<n, d>> in lowest *)
(* terms (d > 0), so that the weighted average is computed, not assumed.   *)
(* Python exceptions are outcomes of a call (ValueError,                   *)
(* ZeroDivisionError); the statements executed before the raise keep their *)
(* effect, as in the interpreter.  Float rounding, NaN and infinities are  *)
(* not modelled.                                                           *)
(*                                                                         *)
(* Spec is the ledger with calls on two assets; SpecOneAsset is the same   *)
(* ledger when every call is about one asset.  call, old_holdings and      *)
(* old_transactions record the last call and the ledger it was entered     *)
(* with, so that the effect of a call is a predicate on one state.         *)
(***************************************************************************)
EXTENDS Integers, Sequences, FiniteSets, TLC

\* ---------------------------------------------------------------- bounds
MaxCalls == 3
MaxAmount == 2
MaxPrice == 2
\* calls in the short runs (valuation, two assets)
MaxTrades == 2

\* crypto ids used as dict keys
Assets == {"btc", "eth"}
\* the amount argument of buy/sell: any number, also zero and negative
Amounts == (0 - 1)..MaxAmount
\* a price as the API may report it (info.get(vs_currency, 0) may be 0)
PriceValues == (0 - 1)..MaxPrice

\* ------------------------------------------------- exact arithmetic
Abs(x) == IF x < 0 THEN 0 - x ELSE x

RECURSIVE GCD(_, _)
GCD(a, b) == IF b = 0 THEN a ELSE GCD(b, a % b)

\* the rational n/d in lowest terms with a positive denominator (d # 0)
Rat(n, d) ==
    LET s == IF d < 0 THEN 0 - 1 ELSE 1
        g == GCD(Abs(n), Abs(d))
    IN  <<(s * n) \div g, (s * d) \div g>>

RatOf(i) == <<i, 1>>
RatAdd(x, y) == Rat(x[1] * y[2] + y[1] * x[2], x[2] * y[2])
RatSub(x, y) == Rat(x[1] * y[2] - y[1] * x[2], x[2] * y[2])
RatMul(x, y) == Rat(x[1] * y[1], x[2] * y[2])
\* x / y for y # 0
RatDiv(x, y) == Rat(x[1] * y[2], x[2] * y[1])

\* ---------------------------------------------------------------- state
VARIABLES
    holdings,          \* self._holdings: crypto_id -> [amount, avg_buy_price]
    transactions,      \* self._transactions: list of Transaction
    current_price,     \* asset.current_price of the CryptoAsset of each id
    call,              \* the last call: operation, arguments, price reply, outcome
    old_holdings,      \* self._holdings when the last call was entered
    old_transactions,  \* self._transactions when the last call was entered
    ncalls,            \* number of calls made so far
    snapshot,          \* what the holdings property returned to a caller
    threads,           \* the calls of two callers running at the same time
    fork,              \* the ledger when the two callers were started
    reads,             \* the latest reads of the ledger and what they gave
    req,               \* bushra_p2 PullData._make_request: the call in progress
    wrap,              \* api_library: the getters stacked on requests.get
    market,            \* api_library MarketData: stored data and last update
    menu               \* the demo driver: where its menu loops stand

vars == <<holdings, transactions, current_price, call,
          old_holdings, old_transactions, ncalls, snapshot, threads, fork,
          reads, req, wrap, market, menu>>

\* the state of CryptoPortfolio and of its callers
ledger == <<holdings, transactions, current_price, call,
            old_holdings, old_transactions, ncalls, snapshot, threads, fork>>

\* the state of the HTTP side and of the demo driver
services == <<req, wrap, market, menu>>

\* the state that no operation of the ledger itself touches
outside == <<reads, services>>

\* the state outside the ledger and the record of its last call
others == <<snapshot, threads, fork, outside>>

\* PullData.get_current_price(ids): a dict with a price for some of the ids
\* ({} when the request failed, partial when the API omits an id)
PriceReplies(ids) == UNION {[S -> PriceValues] : S \in SUBSET ids}

\* a validation that lets zero through
TransactionValid_AllowsZero(txn_type, amount, price) ==
    /\ txn_type \in {"BUY", "SELL"}
    /\ ~(amount < 0 \/ price < 0)

\* Transaction.__init__: the two checks that raise ValueError
TransactionValid(txn_type, amount, price) ==
    /\ txn_type \in {"BUY", "SELL"}
    /\ ~(amount <= 0 \/ price <= 0)

\* a constructor that stores amount and price in each other's place
Transaction_SwapsAmountAndPrice(txn_type, crypto_id, amount, price, profit) ==
    [txn_type |-> txn_type, crypto_id |-> crypto_id, amount |-> price,
     price |-> amount, profit |-> profit]

\* the Transaction object built by Transaction.__init__
Transaction(txn_type, crypto_id, amount, price, profit) ==
    [txn_type |-> txn_type, crypto_id |-> crypto_id, amount |-> amount,
     price |-> price, profit |-> profit]

\* a store that replaces the whole dict by the one entry
DictSet_DropsOtherKeys(h, id, v) ==
    [k \in {id} |-> v]

\* dict store h[id] = v (creates the key when absent)
DictSet(h, id, v) ==
    [k \in DOMAIN h \cup {id} |-> IF k = id THEN v ELSE h[k]]

\* del h[id]
DictDel(h, id) == [k \in DOMAIN h \ {id} |-> h[k]]

Init ==
    /\ holdings = <<>>
    /\ transactions = <<>>
    /\ current_price = [id \in Assets |-> 0]
    /\ call = [op |-> "init", crypto_id |-> "", amount |-> 0,
               asked |-> FALSE, prices |-> <<>>, outcome |-> "ok"]
    /\ old_holdings = <<>>
    /\ old_transactions = <<>>
    /\ ncalls = 0
    /\ snapshot = [ref |-> "none", taken |-> <<>>]
    /\ threads = <<>>
    /\ fork = [holdings |-> <<>>, transactions |-> <<>>]
    /\ reads = <<>>
    /\ req = [pc |-> "idle", attempt |-> 0, log |-> <<>>, result |-> <<>>,
              prices |-> <<>>, slept |-> 0, calls |-> 0]
    /\ wrap = [depth |-> 0, caller |-> "none", pc |-> "idle", frames |-> <<>>,
               level |-> 0, ret |-> [kind |-> "none", body |-> <<>>],
               log |-> <<>>, result |-> "none", calls |-> 0]
    /\ market = [data |-> <<>>, previous_updates |-> 0, now |-> 0,
                 limit |-> 0, old_data |-> <<>>, old_updates |-> 0]
    /\ menu = [pc |-> "main", choice |-> "", sub |-> "", inputs |-> 0,
               out |-> ""]

\* ------------------------------------------------------------------ buy
\* a buy that averages the two prices without their quantities
WeightedAverage_Unweighted(prev, amount, price) ==
    RatDiv(RatAdd(prev.avg_buy_price, RatOf(price)), RatOf(2))

\* buy, lines 158-161: the weighted average of an existing holding prev
\* after amount more units at price (total_amount # 0)
WeightedAverage(prev, amount, price) ==
    LET total_value == RatAdd(RatMul(RatOf(prev.amount), prev.avg_buy_price),
                              RatOf(amount * price))
        total_amount == prev.amount + amount
    IN  RatDiv(total_value, RatOf(total_amount))

\* buy, lines 156-163: the holdings after the update and the exception the
\* update raised, if any.  prev['amount'] is stored before the division, so
\* a ZeroDivisionError leaves the new amount with the old average.
BuyUpdate(h, id, amount, price) ==
    IF id \in DOMAIN h
    THEN LET prev == h[id]
             total_amount == prev.amount + amount
         IN  IF total_amount = 0
             THEN [holdings |-> DictSet(h, id, [prev EXCEPT !.amount = total_amount]),
                   exc |-> "ZeroDivisionError"]
             ELSE [holdings |-> DictSet(h, id,
                                  [amount |-> total_amount,
                                   avg_buy_price |-> WeightedAverage(prev, amount, price)]),
                   exc |-> "none"]
    ELSE [holdings |-> DictSet(h, id, [amount |-> amount,
                                       avg_buy_price |-> RatOf(price)]),
          exc |-> "none"]

\* the record of a call kept for the caller's view of it: the operation and
\* its arguments, the reply of get_current_price when the call asked for
\* one, and how the call ended
Called(op, id, amount, prices, outcome) ==
    [op |-> op, crypto_id |-> id, amount |-> amount, asked |-> TRUE,
     prices |-> prices, outcome |-> outcome]

\* the record of a call that ended before it asked for a price
CalledUnasked(op, id, amount, outcome) ==
    [op |-> op, crypto_id |-> id, amount |-> amount, asked |-> FALSE,
     prices |-> <<>>, outcome |-> outcome]

\* a buy that, like sell, takes a missing price for 0 and stores it in the
\* asset before it reports the error
Buy_MissingPriceStoresZero(id, amount, prices) ==
    /\ ncalls < MaxCalls
    /\ ncalls' = ncalls + 1
    /\ old_holdings' = holdings
    /\ old_transactions' = transactions
    /\ IF id \notin DOMAIN prices
       THEN \* print("Error: Could not fetch price."); return
            /\ call' = Called("buy", id, amount, prices, "no_price")
            /\ current_price' = [current_price EXCEPT ![id] = 0]
            /\ UNCHANGED <<holdings, transactions>>
       ELSE LET price == prices[id] IN
            IF price < 0
            THEN \* the current_price setter raises
                 /\ call' = Called("buy", id, amount, prices, "ValueError")
                 /\ UNCHANGED <<holdings, transactions, current_price>>
            ELSE LET upd == BuyUpdate(holdings, id, amount, price) IN
                 /\ current_price' = [current_price EXCEPT ![id] = price]
                 /\ holdings' = upd.holdings
                 /\ IF upd.exc # "none"
                    THEN /\ call' = Called("buy", id, amount, prices, upd.exc)
                         /\ UNCHANGED transactions
                    ELSE IF ~TransactionValid("BUY", amount, price)
                    THEN /\ call' = Called("buy", id, amount, prices, "ValueError")
                         /\ UNCHANGED transactions
                    ELSE /\ transactions' = Append(transactions,
                                 Transaction("BUY", id, amount, price, RatOf(0)))
                         /\ call' = Called("buy", id, amount, prices, "ok")

\* CryptoPortfolio.buy(asset, amount), prices being the reply of
\* get_current_price([asset.crypto_id])
Buy(id, amount, prices) ==
    /\ ncalls < MaxCalls
    /\ ncalls' = ncalls + 1
    /\ old_holdings' = holdings
    /\ old_transactions' = transactions
    /\ IF id \notin DOMAIN prices
       THEN \* print("Error: Could not fetch price."); return
            /\ call' = Called("buy", id, amount, prices, "no_price")
            /\ UNCHANGED <<holdings, transactions, current_price>>
       ELSE LET price == prices[id] IN
            IF price < 0
            THEN \* the current_price setter raises
                 /\ call' = Called("buy", id, amount, prices, "ValueError")
                 /\ UNCHANGED <<holdings, transactions, current_price>>
            ELSE LET upd == BuyUpdate(holdings, id, amount, price) IN
                 /\ current_price' = [current_price EXCEPT ![id] = price]
                 /\ holdings' = upd.holdings
                 /\ IF upd.exc # "none"
                    THEN /\ call' = Called("buy", id, amount, prices, upd.exc)
                         /\ UNCHANGED transactions
                    ELSE IF ~TransactionValid("BUY", amount, price)
                    THEN /\ call' = Called("buy", id, amount, prices, "ValueError")
                         /\ UNCHANGED transactions
                    ELSE /\ transactions' = Append(transactions,
                                 Transaction("BUY", id, amount, price, RatOf(0)))
                         /\ call' = Called("buy", id, amount, prices, "ok")

\* ----------------------------------------------------------------- sell
\* a check that only looks for the key and forgets the amount
InsufficientHoldings_OnlyUnknown(h, id, amount) ==
    id \notin DOMAIN h

\* sell, line 171: the check that rejects the sale
InsufficientHoldings(h, id, amount) ==
    id \notin DOMAIN h \/ h[id].amount < amount

\* a cost basis taken over the whole holding instead of the amount sold
SellProfit_WholeHolding(prev, amount, price) ==
    LET cost_basis == RatMul(RatOf(prev.amount), prev.avg_buy_price)
        proceeds == RatOf(amount * price)
    IN  RatSub(proceeds, cost_basis)

\* sell, lines 177-179: profit of selling amount units of prev at price
SellProfit(prev, amount, price) ==
    LET cost_basis == RatMul(RatOf(amount), prev.avg_buy_price)
        proceeds == RatOf(amount * price)
    IN  RatSub(proceeds, cost_basis)

\* a sell that spreads the whole cost of the holding over what is left
SellUpdate_KeepsCostTotal(h, id, amount) ==
    LET rest == h[id].amount - amount
    IN  IF rest = 0
        THEN DictDel(h, id)
        ELSE DictSet(h, id,
                 [amount |-> rest,
                  avg_buy_price |-> RatDiv(RatMul(RatOf(h[id].amount),
                                                  h[id].avg_buy_price),
                                           RatOf(rest))])

\* a sell that keeps the entry when its amount reaches zero
SellUpdate_KeepsEmptyEntry(h, id, amount) ==
    DictSet(h, id, [h[id] EXCEPT !.amount = h[id].amount - amount])

\* sell, lines 181-183: decrement, and delete the entry at exactly zero
SellUpdate(h, id, amount) ==
    LET rest == h[id].amount - amount
    IN  IF rest = 0
        THEN DictDel(h, id)
        ELSE DictSet(h, id, [h[id] EXCEPT !.amount = rest])

\* CryptoPortfolio.sell(asset, amount); get_current_price is asked only
\* when the holdings check has passed, prices being its reply
Sell(id, amount) ==
    /\ ncalls < MaxCalls
    /\ ncalls' = ncalls + 1
    /\ old_holdings' = holdings
    /\ old_transactions' = transactions
    /\ UNCHANGED current_price
    /\ IF InsufficientHoldings(holdings, id, amount)
       THEN \* print("Error: Insufficient holdings."); return
            /\ call' = CalledUnasked("sell", id, amount, "insufficient")
            /\ UNCHANGED <<holdings, transactions>>
       ELSE \E prices \in PriceReplies({id}) :
            LET price == IF id \in DOMAIN prices THEN prices[id] ELSE 0
                profit == SellProfit(holdings[id], amount, price)
            IN  /\ holdings' = SellUpdate(holdings, id, amount)
                /\ IF ~TransactionValid("SELL", amount, price)
                   THEN /\ call' = Called("sell", id, amount, prices, "ValueError")
                        /\ UNCHANGED transactions
                   ELSE /\ transactions' = Append(transactions,
                                Transaction("SELL", id, amount, price, profit))
                        /\ call' = Called("sell", id, amount, prices, "ok")

Next ==
    \/ \E id \in Assets, amount \in Amounts :
          \E prices \in PriceReplies({id}) :
             Buy(id, amount, prices) /\ UNCHANGED others
    \/ \E id \in Assets, amount \in Amounts :
          Sell(id, amount) /\ UNCHANGED others

Spec == Init /\ [][Next]_vars

\* the two-asset ledger over a short run of calls
NextTwoAssets ==
    \/ /\ ncalls < MaxTrades
       /\ \E id \in Assets, amount \in Amounts :
             \E prices \in PriceReplies({id}) : Buy(id, amount, prices)
       /\ UNCHANGED others
    \/ /\ ncalls < MaxTrades
       /\ \E id \in Assets, amount \in Amounts : Sell(id, amount)
       /\ UNCHANGED others

SpecTwoAssets == Init /\ [][NextTwoAssets]_vars

\* the same ledger when every call is about one asset
OneAsset == "btc"

NextOneAsset ==
    \/ \E amount \in Amounts :
          \E prices \in PriceReplies({OneAsset}) :
             Buy(OneAsset, amount, prices) /\ UNCHANGED others
    \/ \E amount \in Amounts :
          Sell(OneAsset, amount) /\ UNCHANGED others

SpecOneAsset == Init /\ [][NextOneAsset]_vars

\* ------------------------------------------------------ portfolio_value
\* a total that adds the prices up without the amounts held
RECURSIVE PortfolioTotal_IgnoresAmount(_, _, _)
PortfolioTotal_IgnoresAmount(ids, h, prices) ==
    IF ids = {}
    THEN 0
    ELSE LET cid == CHOOSE x \in ids : TRUE
             price == IF cid \in DOMAIN prices THEN prices[cid] ELSE 0
         IN  price + PortfolioTotal_IgnoresAmount(ids \ {cid}, h, prices)

\* portfolio_value, lines 197-203: the loop over the holdings ids that adds
\* amt * prices.get(cid, 0) to total
RECURSIVE PortfolioTotal(_, _, _)
PortfolioTotal(ids, h, prices) ==
    IF ids = {}
    THEN 0
    ELSE LET cid == CHOOSE x \in ids : TRUE
             amt == h[cid].amount
             price == IF cid \in DOMAIN prices THEN prices[cid] ELSE 0
             value == amt * price
         IN  value + PortfolioTotal(ids \ {cid}, h, prices)

\* portfolio_value, line 204: what is printed for each holding
PortfolioLines(h, prices) ==
    [cid \in DOMAIN h |->
        LET price == IF cid \in DOMAIN prices THEN prices[cid] ELSE 0
        IN  [amt |-> h[cid].amount, price |-> price,
             value |-> h[cid].amount * price]]

\* what the caller gets from portfolio_value: the returned total and the
\* printed lines
PortfolioReport(h, prices) ==
    [total |-> PortfolioTotal(DOMAIN h, h, prices),
     lines |-> PortfolioLines(h, prices)]

\* the record of a portfolio_value call
Valued(asked, prices, report) ==
    [op |-> "portfolio_value", crypto_id |-> "", amount |-> 0,
     asked |-> asked, prices |-> prices, outcome |-> "ok",
     total |-> report.total, lines |-> report.lines]

\* a valuation that drops the holdings it got no price for
PortfolioValue_PrunesUnpriced ==
    /\ ncalls < MaxCalls
    /\ ncalls' = ncalls + 1
    /\ old_holdings' = holdings
    /\ old_transactions' = transactions
    /\ UNCHANGED <<transactions, current_price>>
    /\ \E prices \in PriceReplies(DOMAIN holdings) :
          /\ holdings' = [cid \in DOMAIN holdings \cap DOMAIN prices |-> holdings[cid]]
          /\ call' = Valued(TRUE, prices, PortfolioReport(holdings, prices))

\* CryptoPortfolio.portfolio_value(): 0.0 without a request when nothing is
\* held, else the total over the reply of get_current_price(ids)
PortfolioValue ==
    /\ ncalls < MaxCalls
    /\ ncalls' = ncalls + 1
    /\ old_holdings' = holdings
    /\ old_transactions' = transactions
    /\ UNCHANGED <<holdings, transactions, current_price>>
    /\ IF DOMAIN holdings = {}
       THEN call' = Valued(FALSE, <<>>, [total |-> 0, lines |-> <<>>])
       ELSE \E prices \in PriceReplies(DOMAIN holdings) :
               call' = Valued(TRUE, prices, PortfolioReport(holdings, prices))

\* the ledger of two assets with valuations between and after the trades
NextValuation ==
    \/ /\ ncalls < MaxTrades
       /\ \E id \in Assets, amount \in Amounts :
             \E prices \in PriceReplies({id}) : Buy(id, amount, prices)
       /\ UNCHANGED others
    \/ /\ ncalls < MaxTrades
       /\ \E id \in Assets, amount \in Amounts : Sell(id, amount)
       /\ UNCHANGED others
    \/ /\ ncalls <= MaxTrades
       /\ PortfolioValue
       /\ UNCHANGED others

SpecValuation == Init /\ [][NextValuation]_vars

\* ------------------------------------------------------- holdings property
\* the value behind what the property returned, as its caller sees it now:
\* the property returns the dict object self._holdings itself, so the
\* caller reads whatever the ledger holds
SnapshotNow ==
    IF snapshot.ref = "_holdings" THEN holdings ELSE snapshot.taken

\* CryptoPortfolio.holdings: return self._holdings; taken is the content
\* the caller saw on return
HoldingsGet ==
    /\ snapshot' = [ref |-> "_holdings", taken |-> holdings]
    /\ UNCHANGED <<holdings, transactions, current_price, call,
                   old_holdings, old_transactions, ncalls, threads, fork,
                   outside>>

\* the caller deletes the key id from the value the property returned; the
\* write lands in the object the reference names
CallerDeletes(id) ==
    /\ ncalls < MaxCalls
    /\ ncalls' = ncalls + 1
    /\ snapshot.ref # "none"
    /\ id \in DOMAIN SnapshotNow
    /\ old_holdings' = holdings
    /\ old_transactions' = transactions
    /\ call' = CalledUnasked("caller_del", id, 0, "ok")
    /\ snapshot' = [snapshot EXCEPT !.taken = DictDel(SnapshotNow, id)]
    /\ holdings' = IF snapshot.ref = "_holdings"
                   THEN DictDel(holdings, id)
                   ELSE holdings
    /\ UNCHANGED <<transactions, current_price, threads, fork, outside>>

\* the ledger with a caller that reads the property and writes to what it got
NextSnapshot ==
    \/ \E amount \in Amounts :
          \E prices \in PriceReplies({OneAsset}) :
             Buy(OneAsset, amount, prices) /\ UNCHANGED others
    \/ \E amount \in Amounts :
          Sell(OneAsset, amount) /\ UNCHANGED others
    \/ HoldingsGet
    \/ CallerDeletes(OneAsset)

SpecSnapshot == Init /\ [][NextSnapshot]_vars

\* ---------------------------------------------------------------- reads
\* show_transactions, lines 210-215: what it prints, a Transaction being
\* printed with its type, amount, id, price and, for a SELL, its profit
HistoryOutput(t) ==
    IF t = <<>>
    THEN <<"No transactions yet.">>
    ELSE <<"Transaction History:">> \o
         [i \in 1..Len(t) |->
            IF t[i].txn_type = "BUY" THEN [t[i] EXCEPT !.profit = RatOf(0)]
            ELSE t[i]]

\* the latest two reads, r being the newest
LatestReads(r) ==
    IF reads = <<>> THEN <<r>> ELSE <<reads[Len(reads)], r>>

\* a read of the ledger: what was read, what it gave, and after how many
\* buy/sell calls
ReadDone(what, out) ==
    /\ reads' = LatestReads([what |-> what, out |-> out, at |-> ncalls])
    /\ call' = CalledUnasked(what, "", 0, "ok")
    /\ old_holdings' = holdings
    /\ old_transactions' = transactions

\* a show_transactions that hands the records out and empties the list
ShowTransactions_ClearsHistory ==
    /\ ReadDone("show_transactions", HistoryOutput(transactions))
    /\ transactions' = <<>>
    /\ UNCHANGED <<holdings, current_price, ncalls, snapshot, threads, fork,
                   services>>

\* CryptoPortfolio.show_transactions()
ShowTransactions ==
    /\ ReadDone("show_transactions", HistoryOutput(transactions))
    /\ UNCHANGED <<holdings, transactions, current_price, ncalls,
                   snapshot, threads, fork, services>>

\* a read of the holdings property, the caller looking at what it returned
ReadHoldings ==
    /\ ReadDone("holdings", holdings)
    /\ snapshot' = [ref |-> "_holdings", taken |-> holdings]
    /\ UNCHANGED <<holdings, transactions, current_price, ncalls,
                   threads, fork, services>>

\* the ledger with a caller that reads it between calls
NextReads ==
    \/ /\ ncalls < MaxTrades
       /\ \E amount \in Amounts :
             \E prices \in PriceReplies({OneAsset}) :
                Buy(OneAsset, amount, prices)
       /\ UNCHANGED others
    \/ /\ ncalls < MaxTrades
       /\ \E amount \in Amounts : Sell(OneAsset, amount)
       /\ UNCHANGED others
    \/ ShowTransactions
    \/ ReadHoldings

SpecReads == Init /\ [][NextReads]_vars

\* ------------------------------------------------------ concurrent callers
\* two callers of buy/sell on the same CryptoPortfolio; the class holds no
\* lock, so a caller can be preempted between any two statements
Threads == {1, 2}

\* calls one caller makes alone before the two run together
MaxSetup == 1

\* a caller about to run op(OneAsset, amount); pc names the statement it
\* runs next, the other fields are the locals of the call
ThreadStart(op, amount) ==
    [pc |-> IF op = "buy" THEN "buy149" ELSE "sell171",
     op |-> op, amount |-> amount, asked |-> FALSE, prices |-> <<>>,
     price |-> 0, profit |-> RatOf(0), total_value |-> RatOf(0),
     total_amount |-> 0, prev_live |-> FALSE, outcome |-> "running"]

\* the call of thread t has returned or raised
Finished(th, outcome) == [th EXCEPT !.pc = "done", !.outcome = outcome]

\* the entry of OneAsset leaves the dict (del, or a store of a new dict over
\* it): a prev another buy still holds no longer names an entry of holdings
Orphan(ths, t) ==
    [u \in DOMAIN ths |->
        IF u # t /\ ths[u].pc = "buy160"
        THEN [ths[u] EXCEPT !.prev_live = FALSE]
        ELSE ths[u]]

\* the amounts the two callers trade: the valid ones
ThreadAmounts == 1..MaxAmount

\* both callers start together on the ledger as it stands
Fork ==
    /\ threads = <<>>
    /\ \E op1 \in {"buy", "sell"}, op2 \in {"buy", "sell"},
          a1 \in ThreadAmounts, a2 \in ThreadAmounts :
          threads' = [t \in Threads |->
                        IF t = 1 THEN ThreadStart(op1, a1)
                                 ELSE ThreadStart(op2, a2)]
    /\ fork' = [holdings |-> holdings, transactions |-> transactions]
    /\ UNCHANGED <<holdings, transactions, current_price, call,
                   old_holdings, old_transactions, ncalls, snapshot,
                   outside>>

\* what a thread step leaves alone besides holdings, transactions,
\* current_price and threads
ThreadFrame ==
    UNCHANGED <<call, old_holdings, old_transactions, ncalls, snapshot, fork,
                outside>>

\* buy, lines 149-154: the price reply, and the current_price setter
Buy149(t) ==
    /\ threads # <<>> /\ threads[t].pc = "buy149"
    /\ \E prices \in PriceReplies({OneAsset}) :
          LET th == [threads[t] EXCEPT !.asked = TRUE, !.prices = prices] IN
          IF OneAsset \notin DOMAIN prices
          THEN /\ threads' = [threads EXCEPT ![t] = Finished(th, "no_price")]
               /\ UNCHANGED current_price
          ELSE IF prices[OneAsset] < 0
          THEN /\ threads' = [threads EXCEPT ![t] = Finished(th, "ValueError")]
               /\ UNCHANGED current_price
          ELSE /\ threads' = [threads EXCEPT ![t] =
                     [th EXCEPT !.pc = "buy156", !.price = prices[OneAsset]]]
               /\ current_price' =
                     [current_price EXCEPT ![OneAsset] = prices[OneAsset]]
    /\ UNCHANGED <<holdings, transactions>>
    /\ ThreadFrame

\* buy, lines 156-159: the membership test and the reads of prev
Buy156(t) ==
    /\ threads # <<>> /\ threads[t].pc = "buy156"
    /\ LET th == threads[t] IN
       IF OneAsset \in DOMAIN holdings
       THEN LET prev == holdings[OneAsset] IN
            threads' = [threads EXCEPT ![t] =
               [th EXCEPT !.pc = "buy160", !.prev_live = TRUE,
                  !.total_value = RatAdd(RatMul(RatOf(prev.amount),
                                                prev.avg_buy_price),
                                         RatOf(th.amount * th.price)),
                  !.total_amount = prev.amount + th.amount]]
       ELSE threads' = [threads EXCEPT ![t] = [th EXCEPT !.pc = "buy163"]]
    /\ UNCHANGED <<holdings, transactions, current_price>>
    /\ ThreadFrame

\* buy, lines 160-161: the writes through prev, which land in holdings only
\* while prev is still the entry of the dict
Buy160(t) ==
    /\ threads # <<>> /\ threads[t].pc = "buy160"
    /\ LET th == threads[t] IN
       /\ holdings' =
            IF ~th.prev_live THEN holdings
            ELSE DictSet(holdings, OneAsset,
                   [amount |-> th.total_amount,
                    avg_buy_price |->
                       IF th.total_amount = 0
                       THEN holdings[OneAsset].avg_buy_price
                       ELSE RatDiv(th.total_value, RatOf(th.total_amount))])
       /\ threads' = [threads EXCEPT ![t] =
            IF th.total_amount = 0
            THEN Finished(th, "ZeroDivisionError")
            ELSE [th EXCEPT !.pc = "buy165"]]
    /\ UNCHANGED <<transactions, current_price>>
    /\ ThreadFrame

\* buy, line 163: the store of a new entry
Buy163(t) ==
    /\ threads # <<>> /\ threads[t].pc = "buy163"
    /\ LET th == threads[t] IN
       /\ holdings' = DictSet(holdings, OneAsset,
              [amount |-> th.amount, avg_buy_price |-> RatOf(th.price)])
       /\ threads' = [Orphan(threads, t) EXCEPT ![t] =
              [th EXCEPT !.pc = "buy165"]]
    /\ UNCHANGED <<transactions, current_price>>
    /\ ThreadFrame

\* buy, lines 165-166: the Transaction and its append
Buy165(t) ==
    /\ threads # <<>> /\ threads[t].pc = "buy165"
    /\ LET th == threads[t] IN
       IF TransactionValid("BUY", th.amount, th.price)
       THEN /\ transactions' = Append(transactions,
                 Transaction("BUY", OneAsset, th.amount, th.price, RatOf(0)))
            /\ threads' = [threads EXCEPT ![t] = Finished(th, "ok")]
       ELSE /\ threads' = [threads EXCEPT ![t] = Finished(th, "ValueError")]
            /\ UNCHANGED transactions
    /\ UNCHANGED <<holdings, current_price>>
    /\ ThreadFrame

\* sell, lines 171-173: the holdings check
Sell171(t) ==
    /\ threads # <<>> /\ threads[t].pc = "sell171"
    /\ LET th == threads[t] IN
       threads' = [threads EXCEPT ![t] =
          IF InsufficientHoldings(holdings, OneAsset, th.amount)
          THEN Finished(th, "insufficient")
          ELSE [th EXCEPT !.pc = "sell175"]]
    /\ UNCHANGED <<holdings, transactions, current_price>>
    /\ ThreadFrame

\* sell, lines 175-179: the price reply, and the profit from the average
\* the entry has when the reply is in
Sell175(t) ==
    /\ threads # <<>> /\ threads[t].pc = "sell175"
    /\ \E prices \in PriceReplies({OneAsset}) :
          LET th == [threads[t] EXCEPT !.asked = TRUE, !.prices = prices]
              price == IF OneAsset \in DOMAIN prices THEN prices[OneAsset] ELSE 0
          IN  threads' = [threads EXCEPT ![t] =
                 IF OneAsset \notin DOMAIN holdings
                 THEN Finished([th EXCEPT !.price = price], "KeyError")
                 ELSE [th EXCEPT !.pc = "sell181", !.price = price,
                          !.profit = SellProfit(holdings[OneAsset],
                                                th.amount, price)]]
    /\ UNCHANGED <<holdings, transactions, current_price>>
    /\ ThreadFrame

\* sell, line 181: the decrement of the entry as it is now
Sell181(t) ==
    /\ threads # <<>> /\ threads[t].pc = "sell181"
    /\ LET th == threads[t] IN
       IF OneAsset \notin DOMAIN holdings
       THEN /\ threads' = [threads EXCEPT ![t] = Finished(th, "KeyError")]
            /\ UNCHANGED holdings
       ELSE /\ holdings' = DictSet(holdings, OneAsset,
                 [holdings[OneAsset] EXCEPT
                     !.amount = holdings[OneAsset].amount - th.amount])
            /\ threads' = [threads EXCEPT ![t] = [th EXCEPT !.pc = "sell182"]]
    /\ UNCHANGED <<transactions, current_price>>
    /\ ThreadFrame

\* sell, lines 182-183: the delete of an entry at exactly zero
Sell182(t) ==
    /\ threads # <<>> /\ threads[t].pc = "sell182"
    /\ LET th == threads[t] IN
       IF OneAsset \notin DOMAIN holdings
       THEN /\ threads' = [threads EXCEPT ![t] = Finished(th, "KeyError")]
            /\ UNCHANGED holdings
       ELSE IF holdings[OneAsset].amount = 0
       THEN /\ holdings' = DictDel(holdings, OneAsset)
            /\ threads' = [Orphan(threads, t) EXCEPT ![t] =
                   [th EXCEPT !.pc = "sell185"]]
       ELSE /\ threads' = [threads EXCEPT ![t] = [th EXCEPT !.pc = "sell185"]]
            /\ UNCHANGED holdings
    /\ UNCHANGED <<transactions, current_price>>
    /\ ThreadFrame

\* sell, lines 185-186: the Transaction and its append
Sell185(t) ==
    /\ threads # <<>> /\ threads[t].pc = "sell185"
    /\ LET th == threads[t] IN
       IF TransactionValid("SELL", th.amount, th.price)
       THEN /\ transactions' = Append(transactions,
                 Transaction("SELL", OneAsset, th.amount, th.price, th.profit))
            /\ threads' = [threads EXCEPT ![t] = Finished(th, "ok")]
       ELSE /\ threads' = [threads EXCEPT ![t] = Finished(th, "ValueError")]
            /\ UNCHANGED transactions
    /\ UNCHANGED <<holdings, current_price>>
    /\ ThreadFrame

\* the ledger filled by one caller, then two callers at once
NextConcurrent ==
    \/ /\ threads = <<>>
       /\ ncalls < MaxSetup
       /\ \E amount \in Amounts :
             \E prices \in PriceReplies({OneAsset}) :
                Buy(OneAsset, amount, prices)
       /\ UNCHANGED others
    \/ Fork
    \/ \E t \in Threads : Buy149(t)
    \/ \E t \in Threads : Buy156(t)
    \/ \E t \in Threads : Buy160(t)
    \/ \E t \in Threads : Buy163(t)
    \/ \E t \in Threads : Buy165(t)
    \/ \E t \in Threads : Sell171(t)
    \/ \E t \in Threads : Sell175(t)
    \/ \E t \in Threads : Sell181(t)
    \/ \E t \in Threads : Sell182(t)
    \/ \E t \in Threads : Sell185(t)

SpecConcurrent == Init /\ [][NextConcurrent]_vars

\* ------------------------------------------- PullData._make_request
\* bushra_p2.py: for attempt in range(3)
Attempts == 3
\* time.sleep(5) after a 429, time.sleep(2) after a request exception
RateLimitWait == 5
RetryWait == 2
\* calls of get_current_price in one run
MaxRequests == 2

\* what the API can say about one coin: a price in usd, or no usd entry
CoinInfos == {<<>>} \cup {[usd |-> p] : p \in PriceValues}

\* the JSON bodies of simple/price: coin id -> info, for some of the ids
Bodies == UNION {[S -> CoinInfos] : S \in SUBSET Assets}

\* how one HTTP attempt can end: a 2xx reply with a JSON body, a 429, or a
\* requests.exceptions.RequestException (timeout, connection error, the
\* HTTPError of raise_for_status, a body that is no JSON)
AttemptOutcomes ==
    {[kind |-> "ok", body |-> b] : b \in Bodies}
        \cup {[kind |-> "429", body |-> <<>>],
              [kind |-> "exception", body |-> <<>>]}

\* get_current_price, line 58: the usd price of each coin of the body, 0
\* for a coin without one, and {} for an empty body
PricesOf(data) ==
    [cid \in DOMAIN data |->
        IF "usd" \in DOMAIN data[cid] THEN data[cid].usd ELSE 0]

\* what a step of a request leaves alone
RequestFrame == UNCHANGED <<ledger, reads, wrap, market, menu>>

\* get_current_price calls _make_request: the loop is entered
MakeRequest ==
    /\ req.pc \in {"idle", "returned"}
    /\ req.calls < MaxRequests
    /\ req' = [pc |-> "loop", attempt |-> 0, log |-> <<>>, result |-> <<>>,
               prices |-> <<>>, slept |-> 0, calls |-> req.calls + 1]
    /\ RequestFrame

\* one pass of the loop body, lines 40-51, o being how requests.get and
\* the reading of its response ended (self._rate_limit() only delays the
\* pass and stamps the time of the request)
Attempt(o) ==
    /\ req.pc = "loop"
    /\ req.attempt < Attempts
    /\ req' = IF o.kind = "ok"
              THEN [req EXCEPT !.pc = "returned",
                               !.log = Append(req.log, o),
                               !.result = o.body,
                               !.prices = PricesOf(o.body)]
              ELSE [req EXCEPT !.attempt = req.attempt + 1,
                               !.log = Append(req.log, o),
                               !.slept = req.slept +
                                   (IF o.kind = "429" THEN RateLimitWait
                                                      ELSE RetryWait)]
    /\ RequestFrame

\* a loop that gives up with an exception when its attempts are used up
ReturnEmpty_Raises ==
    /\ req.pc = "loop"
    /\ req.attempt = Attempts
    /\ req' = [req EXCEPT !.pc = "raised"]
    /\ RequestFrame

\* line 52: return {} once range(3) is exhausted
ReturnEmpty ==
    /\ req.pc = "loop"
    /\ req.attempt = Attempts
    /\ req' = [req EXCEPT !.pc = "returned", !.result = <<>>,
                          !.prices = <<>>]
    /\ RequestFrame

NextRequest ==
    \/ MakeRequest
    \/ \E o \in AttemptOutcomes : Attempt(o)
    \/ ReturnEmpty

\* the loop body always ends: requests.get has timeout=10 and each sleep
\* is finite
SpecRequest == Init /\ [][NextRequest]_vars /\ WF_vars(NextRequest)

\* ------------------------------------- api_library: requests.get, wrapped
\* PullData.__init__: self.max_retries = 5
MaxRetries == 5
\* MarketData.fetch_data: if not 1 <= limit <= 250
LimitMin == 1
LimitMax == 250
\* wrappers stacked on requests.get, coins in one reply, calls in one run
MaxWrappers == 2
MaxCoins == 2
MaxHttpCalls == 3

\* a coin of the markets reply, by the keys it has; fetch_data keeps the
\* coins that have name, symbol and current_price
Coins == {[symbol |-> "btc", keys |-> {"name", "symbol", "current_price"}],
          [symbol |-> "eth", keys |-> {"name", "symbol", "current_price"}],
          [symbol |-> "xrp", keys |-> {"name", "symbol"}]}

\* the JSON lists a reply can carry
CoinLists == UNION {[1..n -> Coins] : n \in 0..MaxCoins}

\* how the real requests.get can end: a response (200 with a JSON list, a
\* 429, another error status) or an exception of requests
HttpOutcomes ==
    {[kind |-> "ok", body |-> b] : b \in CoinLists}
        \cup {[kind |-> k, body |-> <<>>] :
                 k \in {"429", "http_error", "timeout", "connection"}}

\* the outcomes that are exceptions travelling up the call stack
IsException(o) == o.kind \in {"timeout", "connection", "RuntimeError"}

\* the limits a caller may pass, around both ends of the range
Limits == {LimitMin - 1, LimitMin, LimitMax, LimitMax + 1}

\* what a step of the HTTP side leaves alone
HttpFrame == UNCHANGED <<ledger, reads, req, menu>>

\* requests.get(...) is called: every wrapper on the global is entered,
\* outermost first, each with retries = 0, down to the real get
EnterGet(w, caller) ==
    [w EXCEPT !.caller = caller, !.pc = "get",
              !.frames = [i \in 1..w.depth |-> 0], !.level = 0,
              !.ret = [kind |-> "none", body |-> <<>>], !.log = <<>>,
              !.result = "none", !.calls = w.calls + 1]

\* PullData._make_request, lines 69-72: _rate_limit() stacks one more
\* limited_get on requests.get, then requests.get is called
PullRequest ==
    /\ wrap.pc = "idle"
    /\ wrap.calls < MaxHttpCalls
    /\ wrap.depth < MaxWrappers
    /\ wrap' = EnterGet([wrap EXCEPT !.depth = wrap.depth + 1], "pull")
    /\ UNCHANGED market
    /\ HttpFrame

\* MarketData.fetch_data(limit), lines 521-536: the range check, then
\* requests.get, whatever the global is by now
FetchData(limit) ==
    /\ wrap.pc = "idle"
    /\ wrap.calls < MaxHttpCalls
    /\ market' = [market EXCEPT !.limit = limit, !.now = market.now + 1,
                                !.old_data = market.data,
                                !.old_updates = market.previous_updates]
    /\ wrap' = IF limit < LimitMin \/ limit > LimitMax
               THEN [EnterGet(wrap, "fetch") EXCEPT !.pc = "idle",
                                                    !.result = "ValueError"]
               ELSE EnterGet(wrap, "fetch")
    /\ HttpFrame

\* the real requests.get makes one HTTP attempt, which ends as o
RealGet(o) ==
    /\ wrap.pc = "get"
    /\ wrap' = [wrap EXCEPT !.log = Append(wrap.log, o), !.ret = o,
                            !.level = IF wrap.depth = 0 THEN 0 ELSE 1,
                            !.pc = IF wrap.depth = 0 THEN "back" ELSE "unwind"]
    /\ UNCHANGED market
    /\ HttpFrame

\* where the outcome goes from wrapper level: the wrapper above, or the
\* caller of requests.get
Upwards(w, o) ==
    IF w.level = w.depth
    THEN [w EXCEPT !.ret = o, !.pc = "back"]
    ELSE [w EXCEPT !.ret = o, !.level = w.level + 1]

\* a wrapper that hands the 429 back when its retries are used up
LimitedGet_ReturnsLast429(w) ==
    LET retries == w.frames[w.level] + 1 IN
    IF IsException(w.ret) THEN Upwards(w, w.ret)
    ELSE IF w.ret.kind = "429"
    THEN IF retries > MaxRetries
         THEN Upwards([w EXCEPT !.frames[w.level] = retries], w.ret)
         ELSE [w EXCEPT !.frames = [i \in 1..w.depth |->
                                      IF i < w.level THEN 0
                                      ELSE IF i = w.level THEN retries
                                      ELSE w.frames[i]],
                        !.pc = "get"]
    ELSE Upwards(w, w.ret)

\* limited_get, lines 36-54, in the wrapper at w.level, original_get having
\* ended as w.ret: an exception passes through, a 429 counts a retry and
\* either raises RuntimeError or calls original_get again, any other
\* response is returned
LimitedGet(w) ==
    LET retries == w.frames[w.level] + 1 IN
    IF IsException(w.ret) THEN Upwards(w, w.ret)
    ELSE IF w.ret.kind = "429"
    THEN IF retries > MaxRetries
         THEN Upwards([w EXCEPT !.frames[w.level] = retries],
                      [kind |-> "RuntimeError", body |-> <<>>])
         ELSE [w EXCEPT !.frames = [i \in 1..w.depth |->
                                      IF i < w.level THEN 0
                                      ELSE IF i = w.level THEN retries
                                      ELSE w.frames[i]],
                        !.pc = "get"]
    ELSE Upwards(w, w.ret)

\* one wrapper deals with what original_get gave it
WrapperStep ==
    /\ wrap.pc = "unwind"
    /\ wrap' = LimitedGet(wrap)
    /\ UNCHANGED market
    /\ HttpFrame

\* PullData._make_request, lines 72-78: raise_for_status and json, None on
\* a RequestException; the wrapper's RuntimeError is not caught
PullReturn ==
    /\ wrap.pc = "back" /\ wrap.caller = "pull"
    /\ wrap' = [wrap EXCEPT !.pc = "idle",
                  !.result = IF wrap.ret.kind = "ok" THEN "json"
                             ELSE IF wrap.ret.kind = "RuntimeError"
                             THEN "RuntimeError"
                             ELSE "None"]
    /\ UNCHANGED market
    /\ HttpFrame

\* fetch_data, lines 545-558: the coins of the reply that have all of
\* name, symbol and current_price, in order
RECURSIVE CryptoList(_)
CryptoList(data) ==
    IF data = <<>> THEN <<>>
    ELSE LET rest == CryptoList(SubSeq(data, 1, Len(data) - 1))
             i == data[Len(data)]
         IN  IF {"name", "symbol", "current_price"} \subseteq i.keys
             THEN Append(rest, i)
             ELSE rest

\* a fetch_data that stores the reply before it looks for usable coins
FetchReturn_StoresFirst ==
    /\ wrap.pc = "back" /\ wrap.caller = "fetch"
    /\ LET crypto_list == CryptoList(wrap.ret.body)
           stored == wrap.ret.kind = "ok" /\ wrap.ret.body # <<>>
           ok == wrap.ret.kind = "ok" /\ crypto_list # <<>>
       IN  /\ market' = IF stored
                        THEN [market EXCEPT !.data = crypto_list,
                                            !.previous_updates = market.now]
                        ELSE market
           /\ wrap' = [wrap EXCEPT !.pc = "idle",
                          !.result = IF ok THEN "True" ELSE "False"]
    /\ HttpFrame

\* MarketData.fetch_data, lines 538-583, once requests.get is back: False
\* for a 429, an error status, an empty reply, no usable coin or any
\* exception; otherwise the coins and the time are stored and it is True
FetchReturn ==
    /\ wrap.pc = "back" /\ wrap.caller = "fetch"
    /\ LET crypto_list == CryptoList(wrap.ret.body)
           ok == wrap.ret.kind = "ok" /\ crypto_list # <<>>
       IN  /\ market' = IF ok
                        THEN [market EXCEPT !.data = crypto_list,
                                            !.previous_updates = market.now]
                        ELSE market
           /\ wrap' = [wrap EXCEPT !.pc = "idle",
                          !.result = IF ok THEN "True" ELSE "False"]
    /\ HttpFrame

NextHttp ==
    \/ PullRequest
    \/ \E limit \in Limits : FetchData(limit)
    \/ \E o \in HttpOutcomes : RealGet(o)
    \/ WrapperStep
    \/ PullReturn
    \/ FetchReturn

SpecHttp == Init /\ [][NextHttp]_vars

\* ------------------------------------------------------- the demo driver
\* lines of input the user types at the main menu in one run
MaxInputs == 4

\* what the user can type at the main menu and at the chart menu
MainChoices == {"1", "2", "3", "4", "5", "6", "x"}
ChartChoices == {"1", "2", "3", "x"}

\* what a step of the driver leaves alone
DemoFrame == UNCHANGED <<ledger, reads, req, wrap, market>>

\* demo_script.py line 14: choice = input(...) at the top of the main loop
MainInput(c) ==
    /\ menu.pc = "main"
    /\ menu.inputs < MaxInputs
    /\ menu' = [menu EXCEPT !.pc = "dispatch", !.choice = c,
                            !.inputs = menu.inputs + 1]
    /\ DemoFrame

\* lines 25-36: choice "1"; when fetch_data returned True the chart menu
\* is shown and choice is read once more, otherwise the main loop goes on
ViewCharts(fetched, c) ==
    /\ menu.pc = "dispatch" /\ menu.choice = "1"
    /\ menu' = IF fetched
               THEN [menu EXCEPT !.pc = "chart_loop", !.sub = c,
                                 !.out = "Which Chart do you want?"]
               ELSE [menu EXCEPT !.pc = "main", !.out = ""]
    /\ DemoFrame

\* lines 37-47, one pass of while(True): "3" leaves the loop, every other
\* choice runs its branch; choice is not read again inside the loop
ChartPass ==
    /\ menu.pc = "chart_loop"
    /\ menu' = IF menu.sub = "3"
               THEN [menu EXCEPT !.pc = "main", !.out = ""]
               ELSE [menu EXCEPT !.pc = "chart_branch",
                        !.out = IF menu.sub = "1" THEN "Generating Price Chart..."
                                ELSE IF menu.sub = "2"
                                THEN "Generating 24h Change Chart..."
                                ELSE "I didn't understand that."]
    /\ DemoFrame

\* the branch is done and while(True) starts its next pass
ChartRepeat ==
    /\ menu.pc = "chart_branch"
    /\ menu' = [menu EXCEPT !.pc = "chart_loop"]
    /\ DemoFrame

\* lines 48-61: the other branches of the main loop, each back to its top
MainOther ==
    /\ menu.pc = "dispatch" /\ menu.choice \notin {"1", "6"}
    /\ menu' = [menu EXCEPT !.pc = "main",
                  !.out = IF menu.choice = "2" THEN "table"
                          ELSE IF menu.choice \in {"3", "4", "5"} THEN "unfinished"
                          ELSE "I didn't understand that..."]
    /\ DemoFrame

\* lines 58-62: choice "6" breaks the main loop
Exit ==
    /\ menu.pc = "dispatch" /\ menu.choice = "6"
    /\ menu' = [menu EXCEPT !.pc = "exited", !.out = "BYE!"]
    /\ DemoFrame

NextDemo ==
    \/ \E c \in MainChoices : MainInput(c)
    \/ \E fetched \in BOOLEAN, c \in ChartChoices : ViewCharts(fetched, c)
    \/ ChartPass
    \/ ChartRepeat
    \/ MainOther
    \/ Exit

\* the driver keeps running: the user types when asked and every branch
\* of a loop ends
SpecDemo == Init /\ [][NextDemo]_vars /\ WF_vars(NextDemo)

\* -------------------------------------------------- reading the last call
\* the price the last call worked with: the reply's price, or the 0 that
\* sell uses when the reply has none
CallHasPrice == call.crypto_id \in DOMAIN call.prices
CallPrice == IF CallHasPrice THEN call.prices[call.crypto_id] ELSE 0

TypeOK ==
    /\ DOMAIN holdings \subseteq Assets
    /\ Len(transactions) <= MaxCalls
    /\ ncalls \in 0..MaxCalls

\* the last call was the given operation / ended the given way
Succeeded(op) == call.op = op /\ call.outcome = "ok"
Unchanged == holdings = old_holdings /\ transactions = old_transactions
LastTxn == transactions[Len(transactions)]

\* ------------------------------------------------------------------ C1
\* C1: after any sequence of buy and sell calls, failing ones included,
\* every entry of the holdings mapping has amount > 0.
C1_AllHoldingsPositive ==
    \A id \in DOMAIN holdings : holdings[id].amount > 0

\* ------------------------------------------------------------------ C2
\* C2: buy is atomic: either the call succeeds and exactly one BUY
\* transaction is appended to the history, or it fails and holdings and
\* history are what they were before the call.
C2_BuyAtomic ==
    call.op = "buy" =>
        \/ /\ call.outcome = "ok"
           /\ Len(transactions) = Len(old_transactions) + 1
           /\ SubSeq(transactions, 1, Len(old_transactions)) = old_transactions
           /\ LastTxn.txn_type = "BUY"
        \/ /\ call.outcome # "ok"
           /\ Unchanged

\* ------------------------------------------------------------------ C3
\* C3: a sell that fails for a reason other than insufficient holdings
\* (non-positive amount, or a price that is non-positive or unresolved and
\* taken as 0) leaves holdings and history as they were before the call.
C3_FailedSellNoMutation ==
    (call.op = "sell" /\ call.outcome \notin {"ok", "insufficient"}) => Unchanged

\* ------------------------------------------------------------------ C4
\* C4: a sell of an asset that has no holding, or whose held amount is less
\* than the amount asked, is rejected, and afterwards the holdings mapping
\* and the history are those of before the call.
C4_InsufficientRejected ==
    (/\ call.op = "sell"
     /\ \/ call.crypto_id \notin DOMAIN old_holdings
        \/ old_holdings[call.crypto_id].amount < call.amount)
    => (call.outcome = "insufficient" /\ Unchanged)

\* a sell of more than is held of an asset that is held, after some
\* transaction was recorded
C4_Witness ==
    /\ call.op = "sell"
    /\ call.crypto_id \in DOMAIN old_holdings
    /\ old_holdings[call.crypto_id].amount > 0
    /\ old_holdings[call.crypto_id].amount < call.amount
    /\ Len(old_transactions) > 0
    /\ call.outcome = "insufficient"

\* ------------------------------------------------------------------ C5
\* C5: every buy or sell whose amount is <= 0 or whose unit price is <= 0
\* (for sell, an unresolved price is taken as 0) ends in the
\* invalid-argument error (ValueError) raised to the caller.
C5_NonPositiveIsValueError ==
    (/\ \/ call.op = "buy" /\ CallHasPrice
        \/ call.op = "sell"
     /\ call.amount <= 0 \/ (call.asked /\ CallPrice <= 0))
    => call.outcome = "ValueError"

\* ------------------------------------------------------------------ C6
\* C6: a successful buy of q at p creates the holding (q, p) when the asset
\* had none, and otherwise turns the holding (Q, A) into Q + q units at the
\* average (Q*A + q*p) / (Q + q); 1 @ 1 then 1 @ 2 gives 2 units at 3/2.
C6_BuyWeightedAverage ==
    Succeeded("buy") =>
        LET id == call.crypto_id
            q == call.amount
            p == CallPrice
        IN  /\ id \in DOMAIN holdings
            /\ IF id \notin DOMAIN old_holdings
               THEN holdings[id] = [amount |-> q, avg_buy_price |-> <<p, 1>>]
               ELSE LET Q == old_holdings[id].amount
                        A == old_holdings[id].avg_buy_price
                        new == holdings[id]
                    IN  /\ new.amount = Q + q
                        /\ new.avg_buy_price[2] > 0
                        /\ GCD(Abs(new.avg_buy_price[1]), new.avg_buy_price[2]) = 1
                        \* new_avg * (Q + q) = Q * A + q * p, over the
                        \* common denominator
                        /\ new.avg_buy_price[1] * (Q + q) * A[2]
                             = (Q * A[1] + q * p * A[2]) * new.avg_buy_price[2]
                        /\ (Q = 1 /\ A = <<1, 1>> /\ q = 1 /\ p = 2)
                             => new = [amount |-> 2, avg_buy_price |-> <<3, 2>>]

\* a buy into a holding of 2 at a different price: the weights matter
C6_Witness ==
    /\ Succeeded("buy")
    /\ call.crypto_id \in DOMAIN old_holdings
    /\ old_holdings[call.crypto_id] = [amount |-> 2, avg_buy_price |-> <<1, 1>>]
    /\ call.amount = 1
    /\ CallPrice = 2
    /\ holdings[call.crypto_id] = [amount |-> 3, avg_buy_price |-> <<4, 3>>]

\* ------------------------------------------------------------------ C7
\* C7: a successful sell of q at p appends a SELL transaction whose profit
\* is (p - A) * q, A being the average buy price of the holding when the
\* sale was made; the transactions recorded earlier keep their values.
C7_SellProfit ==
    /\ \A i \in 1..Len(old_transactions) :
           i <= Len(transactions) /\ transactions[i] = old_transactions[i]
    /\ Succeeded("sell") =>
           LET A == old_holdings[call.crypto_id].avg_buy_price
               q == call.amount
               p == CallPrice
           IN  /\ Len(transactions) = Len(old_transactions) + 1
               /\ LastTxn.txn_type = "SELL"
               /\ LastTxn.profit = Rat((p * A[2] - A[1]) * q, A[2])

\* a partial sale of a holding bought at two prices, sold above its average
C7_Witness ==
    /\ Succeeded("sell")
    /\ old_holdings[call.crypto_id] = [amount |-> 3, avg_buy_price |-> <<4, 3>>]
    /\ call.amount = 2
    /\ CallPrice = 2
    /\ LastTxn.profit = <<4, 3>>

\* ------------------------------------------------------------------ C8
\* C8: a successful sell of q from a holding (Q, A) with q < Q leaves the
\* holding with amount Q - q and average A; the average of a holding that
\* stays in the mapping changes only through buy.
C8_PartialSellKeepsAverage ==
    /\ (Succeeded("sell") /\ call.amount < old_holdings[call.crypto_id].amount) =>
           LET id == call.crypto_id
           IN  /\ id \in DOMAIN holdings
               /\ holdings[id] =
                      [amount |-> old_holdings[id].amount - call.amount,
                       avg_buy_price |-> old_holdings[id].avg_buy_price]
    /\ \A id \in DOMAIN holdings \cap DOMAIN old_holdings :
           holdings[id].avg_buy_price # old_holdings[id].avg_buy_price
               => call.op = "buy" /\ call.crypto_id = id

\* one unit sold out of two that were bought at 2
C8_Witness ==
    /\ Succeeded("sell")
    /\ old_holdings[call.crypto_id] = [amount |-> 2, avg_buy_price |-> <<2, 1>>]
    /\ call.amount = 1
    /\ holdings[call.crypto_id] = [amount |-> 1, avg_buy_price |-> <<2, 1>>]

\* ------------------------------------------------------------------ C9
\* the last call sold exactly what was held, successfully
ExhaustingSell ==
    /\ Succeeded("sell")
    /\ call.amount = old_holdings[call.crypto_id].amount

\* C9: a successful sell of exactly the held amount removes the asset from
\* the holdings mapping, and a buy of q at p of that asset that follows it
\* and succeeds gives the holding (q, p), whatever the average was before.
C9_ExhaustThenFresh ==
    /\ [](ExhaustingSell => call.crypto_id \notin DOMAIN holdings)
    /\ [][(/\ ExhaustingSell
           /\ call'.op = "buy"
           /\ call'.outcome = "ok"
           /\ call'.crypto_id = call.crypto_id)
          => /\ call.crypto_id \in DOMAIN holdings'
             /\ holdings'[call.crypto_id] =
                    [amount |-> call'.amount,
                     avg_buy_price |-> <<call'.prices[call.crypto_id], 1>>]]_vars

\* bought at 1, sold out, bought again at 2: the new average is 2
C9_Witness ==
    /\ Succeeded("buy")
    /\ Len(transactions) = 3
    /\ transactions[1].txn_type = "BUY"
    /\ transactions[1].crypto_id = call.crypto_id
    /\ transactions[1].price = 1
    /\ transactions[2].txn_type = "SELL"
    /\ transactions[2].crypto_id = call.crypto_id
    /\ transactions[2].amount = transactions[1].amount
    /\ call.crypto_id \notin DOMAIN old_holdings
    /\ CallPrice = 2
    /\ holdings[call.crypto_id] = [amount |-> call.amount, avg_buy_price |-> <<2, 1>>]

\* ----------------------------------------------------------------- C10
\* C10: per asset a call causes only these changes: absent to present by a
\* buy of it; present to present by a buy or a partial sell of it; present
\* to absent by a sell of exactly the held amount; and no asset is ever
\* present with amount 0.
C10_HoldingTransitions ==
    \A id \in Assets :
        LET was == id \in DOMAIN old_holdings
            is == id \in DOMAIN holdings
            mine == call.crypto_id = id
        IN  /\ (~was /\ is) => (call.op = "buy" /\ mine)
            /\ (was /\ ~is) =>
                   (call.op = "sell" /\ mine /\ call.amount = old_holdings[id].amount)
            /\ (was /\ is /\ holdings[id] # old_holdings[id]) =>
                   /\ mine
                   /\ \/ call.op = "buy"
                      \/ /\ call.op = "sell"
                         /\ 0 < call.amount
                         /\ call.amount < old_holdings[id].amount
            /\ is => holdings[id].amount # 0

\* ----------------------------------------------------------------- C11
\* C11: the history is append-only: a successful buy or sell appends
\* exactly one transaction at the end, with the kind, asset, amount and
\* unit price of the call (profit 0 for a BUY); a call that fails appends
\* nothing; no call removes, reorders or changes an entry already there.
C11_HistoryAppendOnly ==
    /\ Len(old_transactions) <= Len(transactions)
    /\ SubSeq(transactions, 1, Len(old_transactions)) = old_transactions
    /\ call.outcome # "ok" => transactions = old_transactions
    /\ (call.op \in {"buy", "sell"} /\ call.outcome = "ok") =>
           /\ Len(transactions) = Len(old_transactions) + 1
           /\ LastTxn.txn_type = (IF call.op = "buy" THEN "BUY" ELSE "SELL")
           /\ LastTxn.crypto_id = call.crypto_id
           /\ LastTxn.amount = call.amount
           /\ LastTxn.price = CallPrice
           /\ call.op = "buy" => LastTxn.profit = <<0, 1>>

\* a sell of 1 at 2 appended behind two buys that are still in place
C11_Witness ==
    /\ Succeeded("sell")
    /\ Len(old_transactions) = 2
    /\ transactions[1] = old_transactions[1]
    /\ transactions[2] = old_transactions[2]
    /\ call.amount = 1
    /\ CallPrice = 2
    /\ LastTxn.amount = 1
    /\ LastTxn.price = 2

\* ----------------------------------------------------------------- C12
\* the holdings obtained by applying the transactions txns in order to the
\* holdings h, each with its kind, asset, amount and unit price
RECURSIVE Replay(_, _)
Replay(txns, h) ==
    IF txns = <<>>
    THEN h
    ELSE LET t == Head(txns)
             next == IF t.txn_type = "BUY"
                     THEN BuyUpdate(h, t.crypto_id, t.amount, t.price).holdings
                     ELSE IF InsufficientHoldings(h, t.crypto_id, t.amount)
                     THEN h
                     ELSE SellUpdate(h, t.crypto_id, t.amount)
         IN  Replay(Tail(txns), next)

\* C12: in every reachable state, replaying the recorded history from an
\* empty ledger reproduces exactly the current holdings mapping.
C12_ReplayReproducesHoldings ==
    Replay(transactions, <<>>) = holdings

\* ----------------------------------------------------------------- C13
\* C13: every transaction in the history has kind BUY or SELL, amount > 0
\* and unit price > 0.
C13_TransactionsWellFormed ==
    \A i \in 1..Len(transactions) :
        /\ transactions[i].txn_type \in {"BUY", "SELL"}
        /\ transactions[i].amount > 0
        /\ transactions[i].price > 0

\* a history with a BUY and a SELL, after a call whose transaction was
\* refused by the constructor
C13_Witness ==
    /\ Len(transactions) = 2
    /\ transactions[1].txn_type = "BUY"
    /\ transactions[2].txn_type = "SELL"
    /\ call.outcome = "ValueError"
    /\ call.asked
    /\ CallHasPrice
    /\ call.amount <= 0 \/ CallPrice <= 0

\* ----------------------------------------------------------------- C14
\* what one asset adds to the valuation of the last call
Contribution(id) ==
    IF id \in DOMAIN holdings
    THEN holdings[id].amount *
             (IF id \in DOMAIN call.prices THEN call.prices[id] ELSE 0)
    ELSE 0

\* C14: portfolio_value returns the sum over the holdings of amount * price
\* with price 0 for a held asset missing from the reply, and 0 for an empty
\* ledger; with btc (2) and eth (1) held and only btc priced the total is
\* 2 * price of btc.
C14_ValuationTotal ==
    call.op = "portfolio_value" =>
        /\ call.total = Contribution("btc") + Contribution("eth")
        /\ DOMAIN holdings = {} => call.total = 0
        /\ (/\ DOMAIN holdings = {"btc", "eth"}
            /\ holdings["btc"].amount = 2
            /\ holdings["eth"].amount = 1
            /\ DOMAIN call.prices = {"btc"})
           => call.total = 2 * call.prices["btc"]

\* btc (2) and eth (1) held, the reply prices btc at 2 and has no eth
C14_Witness ==
    /\ call.op = "portfolio_value"
    /\ DOMAIN holdings = {"btc", "eth"}
    /\ holdings["btc"].amount = 2
    /\ holdings["eth"].amount = 1
    /\ call.prices = [id \in {"btc"} |-> 2]
    /\ call.total = 4

\* ----------------------------------------------------------------- C15
\* the reply with price 0 put in for every held asset it has no price for
ZeroFilled(h, prices) ==
    [cid \in DOMAIN h |-> IF cid \in DOMAIN prices THEN prices[cid] ELSE 0]

\* C15: when a held asset has no price in the reply, what the valuation
\* gives the caller names that asset as price-unavailable: it is not what
\* the caller would get had the price been a genuine 0.
C15_MissingPriceFlagged ==
    (/\ call.op = "portfolio_value"
     /\ call.asked
     /\ ~(DOMAIN holdings \subseteq DOMAIN call.prices))
    => [total |-> call.total, lines |-> call.lines]
           # PortfolioReport(holdings, ZeroFilled(holdings, call.prices))

\* ----------------------------------------------------------------- C16
\* C16: portfolio_value is a pure read: holdings and history after the call
\* are those of before it, for every ledger state and every price reply.
C16_ValuationPure ==
    call.op = "portfolio_value" => Unchanged

\* a valuation of a ledger that holds something and has a history, with a
\* reply that leaves a held asset without price
C16_Witness ==
    /\ call.op = "portfolio_value"
    /\ call.asked
    /\ DOMAIN holdings # {}
    /\ ~(DOMAIN holdings \subseteq DOMAIN call.prices)
    /\ Len(transactions) > 0
    /\ holdings = old_holdings

\* ----------------------------------------------------------------- C18
\* holdings and history that buy(id, amount) leaves in a ledger that had h
\* and t, when get_current_price replies prices
LedgerAfterBuy(h, t, id, amount, prices) ==
    IF id \notin DOMAIN prices \/ prices[id] < 0
    THEN [holdings |-> h, transactions |-> t]
    ELSE LET upd == BuyUpdate(h, id, amount, prices[id])
             appended == upd.exc = "none" /\ TransactionValid("BUY", amount, prices[id])
         IN  [holdings |-> upd.holdings,
              transactions |->
                  IF appended
                  THEN Append(t, Transaction("BUY", id, amount, prices[id], RatOf(0)))
                  ELSE t]

\* the same for sell(id, amount)
LedgerAfterSell(h, t, id, amount, prices) ==
    IF InsufficientHoldings(h, id, amount)
    THEN [holdings |-> h, transactions |-> t]
    ELSE LET price == IF id \in DOMAIN prices THEN prices[id] ELSE 0
         IN  [holdings |-> SellUpdate(h, id, amount),
              transactions |->
                  IF TransactionValid("SELL", amount, price)
                  THEN Append(t, Transaction("SELL", id, amount, price,
                                             SellProfit(h[id], amount, price)))
                  ELSE t]

Ledger == [holdings |-> holdings, transactions |-> transactions]

\* the two operators above give the ledger the call itself left, when they
\* are given the reply the call got
LedgerAfterMatchesCall ==
    /\ (call.op = "buy") =>
           Ledger = LedgerAfterBuy(old_holdings, old_transactions,
                                   call.crypto_id, call.amount, call.prices)
    /\ (call.op = "sell") =>
           Ledger = LedgerAfterSell(old_holdings, old_transactions,
                                    call.crypto_id, call.amount, call.prices)

\* C18: the ledger is deterministic in the explicit arguments of a call: a
\* second ledger in the same state given the same call ends in the same
\* state whatever the price source answers it, and no call asks the price
\* source.
C18_DeterministicInArguments ==
    /\ (call.op = "buy") =>
           \A other \in PriceReplies({call.crypto_id}) :
               LedgerAfterBuy(old_holdings, old_transactions,
                              call.crypto_id, call.amount, other) = Ledger
    /\ (call.op = "sell") =>
           \A other \in PriceReplies({call.crypto_id}) :
               LedgerAfterSell(old_holdings, old_transactions,
                               call.crypto_id, call.amount, other) = Ledger
    /\ ~call.asked

\* ----------------------------------------------------------------- C20
\* C20: a sell of an asset that has no holding at all ends in the error
\* kind UnknownAsset, which is not the outcome of a sell of more than is
\* held of an asset that is held.
C20_UnknownAssetDistinct ==
    (call.op = "sell" /\ call.crypto_id \notin DOMAIN old_holdings)
    => (call.outcome = "UnknownAsset" /\ call.outcome # "insufficient")

\* ----------------------------------------------------------------- C17
\* C17: the holdings accessor hands out a read-only snapshot: what it
\* returned is not changed by a later buy or sell, and a change the caller
\* makes to it never changes the holdings of the ledger.
C17_SnapshotReadOnly ==
    /\ snapshot.ref # "none" => SnapshotNow = snapshot.taken
    /\ call.op = "caller_del" => holdings = old_holdings

\* ----------------------------------------------------------------- C19
\* both concurrent calls have ended
AllDone == threads # <<>> /\ \A t \in Threads : threads[t].pc = "done"

\* the replies a call can get when run alone: the one it got, or any reply
\* when it ended before it asked
RepliesOf(th) ==
    IF th.asked THEN {th.prices} ELSE PriceReplies({OneAsset})

\* the ledger after the one call of th, run alone on ledger l
LedgerAfterCall(l, th, prices) ==
    IF th.op = "buy"
    THEN LedgerAfterBuy(l.holdings, l.transactions, OneAsset, th.amount, prices)
    ELSE LedgerAfterSell(l.holdings, l.transactions, OneAsset, th.amount, prices)

\* the ledgers the two calls leave when run one after the other from fork
SerialOutcomes ==
    { LedgerAfterCall(LedgerAfterCall(fork, threads[o[1]], p1), threads[o[2]], p2) :
        <<o, p1, p2>> \in
          { <<o, p1, p2>> \in {<<1, 2>>, <<2, 1>>}
                 \X PriceReplies({OneAsset}) \X PriceReplies({OneAsset}) :
               p1 \in RepliesOf(threads[o[1]]) /\ p2 \in RepliesOf(threads[o[2]]) } }

\* C19: when two callers run buy/sell concurrently on one ledger, the final
\* holdings and history are those of some serial order of the two calls.
C19_Serializable ==
    AllDone => Ledger \in SerialOutcomes

\* ----------------------------------------------------------------- C23
\* C23: a buy for which the price source returns no price of the asset
\* reports the error and leaves the holdings, the history and the asset's
\* current_price as they were.
C23_NoPriceBuyFrame ==
    [][(call'.op = "buy" /\ call'.outcome = "no_price" /\ ncalls' # ncalls)
         => UNCHANGED <<holdings, transactions, current_price>>]_vars

C23_Witness ==
    /\ call.op = "buy" /\ call.outcome = "no_price"
    /\ call.crypto_id \notin DOMAIN call.prices
    /\ call.crypto_id \in DOMAIN holdings
    /\ current_price[call.crypto_id] # 0
    /\ transactions # <<>>

HeldAmount(id) == IF id \in DOMAIN holdings THEN holdings[id].amount ELSE 0

\* amounts of the BUY records of id minus amounts of its SELL records
RECURSIVE NetRecorded(_, _)
NetRecorded(id, t) ==
    IF t = <<>> THEN 0
    ELSE LET last == t[Len(t)]
             rest == NetRecorded(id, SubSeq(t, 1, Len(t) - 1))
         IN  IF last.crypto_id # id THEN rest
             ELSE IF last.txn_type = "BUY" THEN rest + last.amount
             ELSE rest - last.amount

\* C29: in every reachable state and for every asset, the amount held (0
\* when absent) is the sum of the amounts of its BUY transactions minus the
\* sum of the amounts of its SELL transactions.
C29_QuantityConservation ==
    \A id \in Assets : HeldAmount(id) = NetRecorded(id, transactions)

\* ----------------------------------------------------------------- C21
\* C21: reading the history or the holdings twice in a row with no buy or
\* sell in between gives equal results, and a read does not change the
\* ledger.
C21_ReadsIdempotent ==
    /\ (Len(reads) = 2 /\ reads[1].what = reads[2].what
                       /\ reads[1].at = reads[2].at)
          => reads[1].out = reads[2].out
    /\ (call.op \in {"show_transactions", "holdings"}) => Unchanged

C21_Witness ==
    /\ Len(reads) = 2
    /\ reads[1].what = "show_transactions" /\ reads[2].what = "show_transactions"
    /\ reads[1].at = reads[2].at
    /\ Len(transactions) = 2
    /\ holdings # <<>>

\* ----------------------------------------------------------------- C24
\* the attempts of the call in progress that got a 2xx reply
OkAttempts == {i \in 1..Len(req.log) : req.log[i].kind = "ok"}

\* what holds of a call of _make_request at every moment
RequestBounded ==
    /\ Len(req.log) <= Attempts
    /\ req.pc # "raised"
    /\ OkAttempts \subseteq {Len(req.log)}
    /\ (req.pc = "returned") =>
          IF OkAttempts # {}
          THEN req.result = req.log[Len(req.log)].body
          ELSE Len(req.log) = Attempts /\ req.result = <<>>
    /\ (req.pc = "loop") => OkAttempts = {}

\* C24: PullData._make_request ends after at most 3 HTTP attempts: it
\* returns the JSON of the first attempt that succeeds and makes no attempt
\* after it; when all 3 attempts end in a 429 or a request exception it
\* returns {} and raises nothing.
C24_RequestTerminates ==
    /\ []RequestBounded
    /\ (req.pc = "loop") ~> (req.pc = "returned")

C24_Witness ==
    /\ req.pc = "returned"
    /\ Len(req.log) = Attempts
    /\ OkAttempts = {}
    /\ req.log[1].kind = "429" /\ req.log[2].kind = "exception"
    /\ req.result = <<>>
    /\ req.calls = 2

\* ----------------------------------------------------------------- C22
\* the last call was fetch_data and it has ended
FetchEnded == wrap.caller = "fetch" /\ wrap.pc = "idle"

\* C22: fetch_data(limit) raises ValueError before any request when limit
\* is outside 1..250; otherwise it returns True exactly when a non-empty
\* list of coins was stored as the new data with a new last-update time;
\* on every failure path it returns False and leaves the stored data and
\* the last-update time as they were.
C22_FetchDataContract ==
    FetchEnded =>
        /\ wrap.result \in {"True", "False", "ValueError"}
        /\ (wrap.result = "ValueError")
              <=> (market.limit < LimitMin \/ market.limit > LimitMax)
        /\ (wrap.result = "ValueError") => wrap.log = <<>>
        /\ (wrap.result = "True") <=> (market.previous_updates = market.now)
        /\ (wrap.result = "True") =>
              /\ market.data # <<>>
              /\ market.data = CryptoList(wrap.ret.body)
        /\ (wrap.result # "True") =>
              /\ market.data = market.old_data
              /\ market.previous_updates = market.old_updates

C22_Witness ==
    /\ FetchEnded
    /\ wrap.result = "False"
    /\ wrap.ret.kind = "ok" /\ wrap.ret.body # <<>>
    /\ market.data # <<>>

\* ----------------------------------------------------------------- C25
\* the getter installed by _rate_limit has returned or raised to the code
\* that called requests.get
GetterReturned == wrap.pc = "back" /\ wrap.depth >= 1

C26_Fetch429SingleAttempt ==
    (FetchEnded /\ wrap.log # <<>> /\ wrap.log[1].kind = "429")
        => (wrap.result = "False" /\ Len(wrap.log) = 1)

\* ----------------------------------------------------------------- C27
\* C27: once the chart sub-menu is entered the driver always eventually
\* returns to the main menu, whatever the user entered there; and the main
\* loop ends exactly when the user enters "6".
C27_ChartMenuReturns ==
    /\ (menu.pc = "chart_loop") ~> (menu.pc = "main")
    /\ [][(menu.pc # "exited" /\ menu'.pc = "exited")
            <=> (menu.pc = "dispatch" /\ menu.choice = "6"
                   /\ menu' # menu)]_vars

====
